---- MODULE Spec2Model ----
(***************************************************************************)
(* LearnOS backend: the Concept Graph Engine                               *)
(* (agents/concept_graph_engine.py), the in-memory store (database.py) and *)
(* the session progression handlers (routers/sessions.py, progress.py,     *)
(* goals.py).                                                              *)
(*                                                                         *)
(* Representation                                                          *)
(*  - graph.nodes (an insertion-ordered dict keyed by concept name) is a   *)
(*    sequence of node records in insertion order; keys are unique.        *)
(*  - difficulty_score and the evaluator's reasoning_quality are kept in   *)
(*    hundredths (0.25 is 25), so node.difficulty_score * 100 is the       *)
(*    stored integer; the values used are exact in binary floating point   *)
(*    after the multiplication by 100.                                     *)
(*  - uuid4 identifiers are creation indices (1, 2, ...).                  *)
(*  - Python's None is the string "None", which is no concept name.        *)
(*  - timestamps are not kept, except mastered_at as "None" / "now".       *)
(***************************************************************************)
EXTENDS Integers, Sequences, FiniteSets, TLC

(***************************************************************************)
(* Bounds of the model                                                     *)
(***************************************************************************)
\* evaluated interactions, over all sessions, that interact explores
MaxInteractions == 4
\* number of sessions start_session may create
MaxSessions == 2

\* SocraticEvaluationAgent.PASS_THRESHOLD, in hundredths
PASS_THRESHOLD == 70

None == "None"
\* concept names, in the order the graph builder inserts them
NameOrder == <<"A", "B", "C">>
Names == {NameOrder[i] : i \in DOMAIN NameOrder}
\* learners (SessionStartRequest.user_id is any string)
Users == {"demo_user", "u2"}
\* difficulty_score values, in hundredths
Difficulties == {20, 25}
\* reasoning_quality values the evaluator returns, in hundredths
QualityScores == {50, 70}
\* goal ids requests name; create_goal hands out the ids of CreatedGoalIds in order
GoalIds == {1, 2}
CreatedGoalIds == {1}
SessionIds == 1..MaxSessions

VARIABLES
    goals,      \* Database.goals: goal id -> LearningGoal
    graphs,     \* Database.graphs: graph id -> ConceptGraph.nodes
    sessions,   \* Database.sessions: sequence of LearningSession, id = index
    mastery,    \* Database.mastery: <<user_id, goal_id>> -> list of MasteryState
    last,       \* the response of the last request handled
    requests    \* the interact requests suspended at an await, in arrival order

vars == <<goals, graphs, sessions, mastery, last, requests>>

(***************************************************************************)
(* Small helpers                                                           *)
(***************************************************************************)
SetMax(S) == CHOOSE x \in S : \A y \in S : y <= x

SeqToSet(s) == {s[i] : i \in DOMAIN s}

\* the keys of graph.nodes
NodeNames(graph) == {graph[i].concept : i \in DOMAIN graph}

\* graph.nodes[concept]
NodeAt(graph, concept) ==
    graph[CHOOSE i \in DOMAIN graph : graph[i].concept = concept]

(***************************************************************************)
(* ConceptGraphEngine                                                      *)
(***************************************************************************)
\* mutant: every concept that has a record counts as mastered
mastered_concepts_any_record(mastery_states) ==
    {mastery_states[i].concept : i \in DOMAIN mastery_states}

\* mastered_concepts = {m.concept for m in mastery_states if m.mastered}
mastered_concepts(mastery_states) ==
    {mastery_states[i].concept :
        i \in {j \in DOMAIN mastery_states : mastery_states[j].mastered}}

\* mutant: a concept is ready while none of its prerequisites is mastered
prerequisites_unmastered(node, mastered) ==
    \A i \in DOMAIN node.prerequisites : node.prerequisites[i] \notin mastered

\* mutant: any() where the code has all()
prerequisites_met_any(node, mastered) ==
    \E i \in DOMAIN node.prerequisites : node.prerequisites[i] \in mastered

\* all(prereq in mastered for prereq in node.prerequisites)
prerequisites_met(node, mastered) ==
    \A i \in DOMAIN node.prerequisites : node.prerequisites[i] \in mastered

\* mutant: every concept that is not mastered is available (no prerequisite check)
available_unchecked(graph, mastered) ==
    LET IsAvail(node) == node.concept \notin mastered
        kept == SelectSeq(graph, IsAvail)
    IN  [i \in 1..Len(kept) |-> kept[i].concept]

\* mutant: the loop does not skip the mastered concepts
available_keeps_mastered(graph, mastered) ==
    LET IsAvail(node) == prerequisites_met(node, mastered)
        kept == SelectSeq(graph, IsAvail)
    IN  [i \in 1..Len(kept) |-> kept[i].concept]

\* mutant: a prerequisite that is not a concept of the graph is not required
available_ignores_dangling(graph, mastered) ==
    LET IsAvail(node) ==
            /\ node.concept \notin mastered
            /\ prerequisites_met(node, mastered \cup (Names \ NodeNames(graph)))
        kept == SelectSeq(graph, IsAvail)
    IN  [i \in 1..Len(kept) |-> kept[i].concept]

_get_available_concepts(graph, mastered) ==
    LET IsAvail(node) ==
            /\ node.concept \notin mastered
            /\ prerequisites_met(node, mastered)
        kept == SelectSeq(graph, IsAvail)
    IN  [i \in 1..Len(kept) |-> kept[i].concept]

\* mutant: the prerequisites are not filtered by the mastered set
all_declared_prereqs(node, mastered) == node.prerequisites

\* [prereq for prereq in node.prerequisites if prereq not in mastered]
unmet_prereqs(node, mastered) ==
    LET NotMastered(p) == p \notin mastered
    IN  SelectSeq(node.prerequisites, NotMastered)

\* mutant: the loop does not skip the mastered concepts
blocked_keeps_mastered(graph, mastered) ==
    LET keys == {c \in NodeNames(graph) :
                    unmet_prereqs(NodeAt(graph, c), mastered) # <<>>}
    IN  [c \in keys |-> unmet_prereqs(NodeAt(graph, c), mastered)]

_get_blocked_concepts(graph, mastered) ==
    LET keys == {c \in NodeNames(graph) :
                    /\ c \notin mastered
                    /\ unmet_prereqs(NodeAt(graph, c), mastered) # <<>>}
    IN  [c \in keys |-> unmet_prereqs(NodeAt(graph, c), mastered)]

\* mutant: a concept that is not in the graph counts as having no prerequisites
validate_missing_concept_valid(graph, concept, mastered) ==
    IF concept \notin NodeNames(graph) THEN <<TRUE, <<>>>>
    ELSE LET missing == unmet_prereqs(NodeAt(graph, concept), mastered)
         IN  <<missing = <<>>, missing>>

\* validate_prerequisite_completion: (False, []) when graph.nodes.get(concept)
\* is None, else (len(missing) == 0, missing)
validate_prerequisite_completion(graph, concept, mastered) ==
    IF concept \notin NodeNames(graph) THEN <<FALSE, <<>>>>
    ELSE LET missing == unmet_prereqs(NodeAt(graph, concept), mastered)
         IN  <<missing = <<>>, missing>>

\* attempts_map.get(concept, 0); a dict comprehension keeps the last entry
attempts_map(mastery_states, concept) ==
    LET idx == {i \in DOMAIN mastery_states : mastery_states[i].concept = concept}
    IN  IF idx = {} THEN 0 ELSE mastery_states[SetMax(idx)].attempts

\* number of nodes that list concept among their prerequisites
dependency_count(graph, concept) ==
    Cardinality({i \in DOMAIN graph :
        \E j \in DOMAIN graph[i].prerequisites :
            graph[i].prerequisites[j] = concept})

\* mutant: dependents raise the score
score_adds_dependents(graph, mastery_states, concept) ==
    NodeAt(graph, concept).difficulty_score
        + attempts_map(mastery_states, concept) * 10
        + dependency_count(graph, concept) * 5

\* lower score is better
score(graph, mastery_states, concept) ==
    NodeAt(graph, concept).difficulty_score
        + attempts_map(mastery_states, concept) * 10
        - dependency_count(graph, concept) * 5

\* mutant: an unstable sort, among equal keys the later element goes first
SortTiesReversed(scored) ==
    LET Before(j, i) == \/ scored[j][2] < scored[i][2]
                        \/ scored[j][2] = scored[i][2] /\ j > i
        Rank(i) == Cardinality({j \in DOMAIN scored : Before(j, i)}) + 1
    IN  [k \in DOMAIN scored |-> scored[CHOOSE i \in DOMAIN scored : Rank(i) = k]]

\* list.sort(key=lambda x: x[1]) is stable: element j is placed before element i
\* when its key is smaller, or equal and j comes first in the list
SortByScore(scored) ==
    LET Before(j, i) == \/ scored[j][2] < scored[i][2]
                        \/ scored[j][2] = scored[i][2] /\ j < i
        Rank(i) == Cardinality({j \in DOMAIN scored : Before(j, i)}) + 1
    IN  [k \in DOMAIN scored |-> scored[CHOOSE i \in DOMAIN scored : Rank(i) = k]]

\* mutant: when no concept is available, a prerequisite that the graph lacks
\* is selected instead of None
select_falls_back_to_missing(graph, available, mastery_states) ==
    IF available = <<>>
    THEN LET missing == {p \in Names \ NodeNames(graph) :
                            \E i \in DOMAIN graph :
                                p \in SeqToSet(graph[i].prerequisites)}
         IN  IF missing = {} THEN None ELSE CHOOSE p \in missing : TRUE
    ELSE LET scored == [i \in DOMAIN available |->
                           <<available[i], score(graph, mastery_states, available[i])>>]
         IN  SortByScore(scored)[1][1]

\* mutant: every concept of the graph is scored, not only the available ones
select_among_all_nodes(graph, available, mastery_states) ==
    IF graph = <<>> THEN None
    ELSE LET scored == [i \in DOMAIN graph |->
                           <<graph[i].concept,
                             score(graph, mastery_states, graph[i].concept)>>]
         IN  SortByScore(scored)[1][1]

_select_next_concept(graph, available, mastery_states) ==
    IF available = <<>> THEN None
    ELSE LET scored == [i \in DOMAIN available |->
                           <<available[i], score(graph, mastery_states, available[i])>>]
         IN  SortByScore(scored)[1][1]

\* a quotient n / d of naturals, d > 0, as the pair <<numerator, denominator>>
\* in lowest terms
RECURSIVE Gcd(_, _)
Gcd(a, b) == IF b = 0 THEN a ELSE Gcd(b, a % b)

Ratio(n, d) == <<n \div Gcd(n, d), d \div Gcd(n, d)>>

\* a whole number of percent
Percent(n) == Ratio(n, 1)

\* mutant: the fraction is not scaled to percent (progress without * 100)
progress_fraction(graph, mastered) ==
    IF graph # <<>> THEN Ratio(Cardinality(mastered), Len(graph)) ELSE Percent(0)

\* progress = len(mastered_concepts) / len(graph.nodes) if graph.nodes else 0;
\* "progress_percentage": progress * 100
progress_percentage(graph, mastered) ==
    IF graph # <<>> THEN Ratio(Cardinality(mastered) * 100, Len(graph)) ELSE Percent(0)

process(graph, mastery_states) ==
    LET mastered == mastered_concepts(mastery_states)
        available == _get_available_concepts(graph, mastered)
    IN  [ available_concepts  |-> available,
          blocked_concepts    |-> _get_blocked_concepts(graph, mastered),
          next_concept        |-> _select_next_concept(graph, available, mastery_states),
          progress_percentage |-> progress_percentage(graph, mastered),
          mastered_concepts   |-> mastered ]

(***************************************************************************)
(* Database                                                                *)
(***************************************************************************)
\* MasteryState(user_id, goal_id, concept) with the model's defaults
MasteryState(user_id, goal_id, concept) ==
    [ user_id |-> user_id, goal_id |-> goal_id, concept |-> concept,
      confidence |-> 0, attempts |-> 0, mastered |-> FALSE, mastered_at |-> None ]

\* LearningSession(id, user_id, goal_id, graph_id, current_concept)
LearningSession(id, user_id, goal_id, graph_id, current_concept) ==
    [ id |-> id, user_id |-> user_id, goal_id |-> goal_id, graph_id |-> graph_id,
      current_concept |-> current_concept, completed |-> FALSE,
      interactions |-> <<>> ]

\* list.remove(existing): drops the first record of the list for that concept
RemoveExisting(states, concept) ==
    LET idx == {i \in DOMAIN states : states[i].concept = concept}
    IN  IF idx = {} THEN states
        ELSE LET k == CHOOSE i \in idx : \A j \in idx : i <= j
             IN  SubSeq(states, 1, k - 1) \o SubSeq(states, k + 1, Len(states))

\* mutant: the key is the goal alone (key = mastery.goal_id), so the record
\* lands in the list of every learner of the goal
save_keyed_by_goal(store, m) ==
    [k \in DOMAIN store |->
        IF k[2] = m.goal_id THEN Append(RemoveExisting(store[k], m.concept), m)
        ELSE store[k]]

\* mutant: the record is appended and the existing one is not removed
save_appends(store, m) ==
    [store EXCEPT ![<<m.user_id, m.goal_id>>] = Append(@, m)]

\* existing = get_mastery_state(...); if existing: remove(existing); append(mastery)
save_mastery_state(store, m) ==
    [store EXCEPT ![<<m.user_id, m.goal_id>>] =
        Append(RemoveExisting(@, m.concept), m)]

get_mastery_states(store, user_id, goal_id) == store[<<user_id, goal_id>>]

\* whether get_mastery_state returns a record (not None)
has_mastery_state(store, user_id, goal_id, concept) ==
    \E i \in DOMAIN store[<<user_id, goal_id>>] :
        store[<<user_id, goal_id>>][i].concept = concept

\* next((m for m in states if m.concept == concept), None), when it is a record
get_mastery_state(store, user_id, goal_id, concept) ==
    LET states == store[<<user_id, goal_id>>]
        idx == {i \in DOMAIN states : states[i].concept = concept}
    IN  states[CHOOSE i \in idx : \A j \in idx : i <= j]

\* mutant: the record is looked up and never created
never_create_mastery(store, user_id, goal_id, concept) == store

\* mutant: a new record is saved even when one exists
always_create_mastery(store, user_id, goal_id, concept) ==
    save_mastery_state(store, MasteryState(user_id, goal_id, concept))

\* the "get or create mastery state" step of start_session and _progress_to_next_concept
get_or_create_mastery(store, user_id, goal_id, concept) ==
    IF has_mastery_state(store, user_id, goal_id, concept) THEN store
    ELSE save_mastery_state(store, MasteryState(user_id, goal_id, concept))

(***************************************************************************)
(* Responses                                                               *)
(***************************************************************************)
NoResult ==
    [ available_concepts |-> <<>>, blocked_concepts |-> <<>>,
      next_concept |-> None, progress_percentage |-> Percent(0), mastered_concepts |-> {} ]

Response(op, status, session_id, concept, completed, passed, progress, result) ==
    [ op |-> op, status |-> status, session_id |-> session_id, concept |-> concept,
      completed |-> completed, passed |-> passed, progress_percentage |-> progress,
      result |-> result ]

\* HTTPException(status_code=status)
Rejected(op, status) == Response(op, status, 0, None, FALSE, FALSE, Percent(0), NoResult)

(***************************************************************************)
(* Graphs                                                                  *)
(***************************************************************************)
ConceptNode(concept, prerequisites, difficulty_score) ==
    [ concept |-> concept, prerequisites |-> prerequisites,
      difficulty_score |-> difficulty_score ]

\* prerequisite lists the engine is tried on: none, one name, two distinct names
\* (the pair A, B in both orders)
PrereqLists ==
    { <<>>, <<"A">>, <<"B">>, <<"C">>,
      <<"A", "B">>, <<"B", "A">>, <<"A", "C">>, <<"B", "C">> }

\* every graph of k nodes (named NameOrder[1..k]) over PrereqLists and Difficulties;
\* a prerequisite that names none of the k nodes is a dangling reference
GraphsOfSize(k) ==
    {g \in [1..k -> [concept : Names, prerequisites : PrereqLists,
                     difficulty_score : Difficulties]] :
        \A i \in 1..k : g[i].concept = NameOrder[i]}

EngineGraphs == UNION {GraphsOfSize(k) : k \in 0..Len(NameOrder)}

\* no prerequisite names a concept outside the graph
NoDangling(graph) ==
    \A i \in DOMAIN graph : SeqToSet(graph[i].prerequisites) \subseteq NodeNames(graph)

\* concepts reachable from c along prerequisite edges in at most n steps
RECURSIVE PrereqClosure(_, _, _)
PrereqClosure(graph, S, n) ==
    IF n = 0 THEN S
    ELSE PrereqClosure(graph,
            S \cup UNION {SeqToSet(NodeAt(graph, c).prerequisites) : c \in S \cap NodeNames(graph)},
            n - 1)

\* no concept is, directly or transitively, its own prerequisite
Acyclic(graph) ==
    \A i \in DOMAIN graph :
        graph[i].concept \notin
            PrereqClosure(graph, SeqToSet(graph[i].prerequisites), Len(graph))

WellFormed(graph) == NoDangling(graph) /\ Acyclic(graph)

\* the graphs goal decomposition hands to create_goal: the shapes of its concept
\* trees (one concept; a chain of prerequisites) and, since ConceptGraph validates
\* nothing, a graph with a tie of scores, one with a dangling prerequisite, one
\* with a concept that is its own prerequisite, and one without nodes
GoalGraphs ==
    { <<ConceptNode("A", <<>>, 20)>>,
      <<ConceptNode("A", <<>>, 20), ConceptNode("B", <<"A">>, 20),
        ConceptNode("C", <<"A", "B">>, 25)>>,
      <<ConceptNode("A", <<>>, 25), ConceptNode("B", <<>>, 20),
        ConceptNode("C", <<"A">>, 20)>>,
      <<ConceptNode("A", <<>>, 20), ConceptNode("B", <<"C">>, 20)>>,
      <<ConceptNode("A", <<>>, 20), ConceptNode("B", <<"B">>, 20)>>,
      <<>> }

(***************************************************************************)
(* routers/goals.py                                                        *)
(***************************************************************************)
\* POST /goal. Database.users holds demo_user only (init_db); user.goals is not kept.
create_goal(user_id, graph) ==
    LET id == Cardinality(DOMAIN goals) + 1
    IN  /\ id \in CreatedGoalIds
        /\ IF user_id # "demo_user"
           THEN /\ last' = Rejected("create_goal", 404)
                /\ UNCHANGED <<goals, graphs, sessions, mastery>>
           ELSE /\ graphs' = graphs @@ (id :> graph)
                /\ goals' = goals @@ (id :> [id |-> id, user_id |-> user_id,
                                             graph_id |-> id])
                /\ last' = Response("create_goal", 200, 0, None, FALSE, FALSE, Percent(0),
                                    NoResult)
                /\ UNCHANGED <<sessions, mastery>>

(***************************************************************************)
(* routers/sessions.py                                                     *)
(***************************************************************************)
\* mutant: a session without an active concept is stored when next_concept is None
start_session_stores_completed(user_id, goal_id) ==
    IF goal_id \notin DOMAIN goals \/ goals[goal_id].graph_id \notin DOMAIN graphs
    THEN /\ last' = Rejected("start_session", 404)
         /\ UNCHANGED <<goals, graphs, sessions, mastery>>
    ELSE
        LET goal == goals[goal_id]
            graph == graphs[goal.graph_id]
            mastery_states == get_mastery_states(mastery, user_id, goal_id)
            id == Len(sessions) + 1
        IN  \E result \in {process(graph, mastery_states)} :
            \E next_concept \in {result.next_concept} :
                /\ id \in SessionIds
                /\ sessions' = Append(sessions,
                       [LearningSession(id, user_id, goal_id, goal.graph_id, next_concept)
                           EXCEPT !.completed = (next_concept = None)])
                /\ mastery' = IF next_concept = None THEN mastery
                              ELSE get_or_create_mastery(mastery, user_id, goal_id,
                                                         next_concept)
                /\ last' = Response("start_session", 200, id, next_concept,
                                    next_concept = None, FALSE,
                                    result.progress_percentage, NoResult)
                /\ UNCHANGED <<goals, graphs>>

\* POST /session/start
start_session(user_id, goal_id) ==
    IF goal_id \notin DOMAIN goals \/ goals[goal_id].graph_id \notin DOMAIN graphs
    THEN /\ last' = Rejected("start_session", 404)
         /\ UNCHANGED <<goals, graphs, sessions, mastery>>
    ELSE
        LET goal == goals[goal_id]
            graph == graphs[goal.graph_id]
            mastery_states == get_mastery_states(mastery, user_id, goal_id)
            id == Len(sessions) + 1
        IN  \E result \in {process(graph, mastery_states)} :
            \E next_concept \in {result.next_concept} :
            IF next_concept = None
            THEN /\ last' = Response("start_session", 200, 0, None, TRUE, FALSE, Percent(0),
                                     NoResult)
                 /\ UNCHANGED <<goals, graphs, sessions, mastery>>
            ELSE /\ id \in SessionIds
                 /\ sessions' = Append(sessions,
                        LearningSession(id, user_id, goal_id, goal.graph_id, next_concept))
                 /\ mastery' = get_or_create_mastery(mastery, user_id, goal_id, next_concept)
                 /\ last' = Response("start_session", 200, id, next_concept, FALSE,
                                     FALSE, result.progress_percentage, NoResult)
                 /\ UNCHANGED <<goals, graphs>>

\* mutant: the engine is run on the mastery states read before interact saved
\* the evaluated record
progress_from_stale_states(sess, store, sid) ==
    \E session \in {sess[sid]} :
    LET graph == graphs[session.graph_id]
        mastery_states == get_mastery_states(mastery, session.user_id, session.goal_id)
    IN  \E result \in {process(graph, mastery_states)} :
        \E next_concept \in {result.next_concept} :
        IF next_concept = None
        THEN /\ sessions' = [sess EXCEPT ![sid].completed = TRUE]
             /\ mastery' = store
             /\ last' = Response("interact", 200, sid, None, TRUE, TRUE,
                                 Percent(100), NoResult)
        ELSE /\ sessions' = [sess EXCEPT ![sid].current_concept = next_concept]
             /\ mastery' = get_or_create_mastery(store, session.user_id,
                                                 session.goal_id, next_concept)
             /\ last' = Response("interact", 200, sid, next_concept, FALSE, TRUE,
                                 result.progress_percentage, NoResult)

\* _progress_to_next_concept on session sid, given the session table sess and the
\* mastery store that interact has written so far
_progress_to_next_concept(sess, store, sid) ==
    \E session \in {sess[sid]} :
    LET graph == graphs[session.graph_id]
        mastery_states == get_mastery_states(store, session.user_id, session.goal_id)
    IN  \E result \in {process(graph, mastery_states)} :
        \E next_concept \in {result.next_concept} :
        IF next_concept = None
        THEN /\ sessions' = [sess EXCEPT ![sid].completed = TRUE]
             /\ mastery' = store
             /\ last' = Response("interact", 200, sid, None, TRUE, TRUE,
                                 Percent(100), NoResult)
        ELSE /\ sessions' = [sess EXCEPT ![sid].current_concept = next_concept]
             /\ mastery' = get_or_create_mastery(store, session.user_id,
                                                 session.goal_id, next_concept)
             /\ last' = Response("interact", 200, sid, next_concept, FALSE, TRUE,
                                 result.progress_percentage, NoResult)

\* the number of evaluated interactions recorded so far, over all sessions
TotalInteractions ==
    LET RECURSIVE Sum(_)
        Sum(n) == IF n = 0 THEN 0 ELSE Len(sessions[n].interactions) + Sum(n - 1)
    IN  Sum(Len(sessions))

\* mutant: a score equal to the threshold does not pass
passed_above_threshold(quality_score) == quality_score > PASS_THRESHOLD

\* SocraticEvaluationAgent.process: passed = quality_score >= PASS_THRESHOLD
passed(quality_score) == quality_score >= PASS_THRESHOLD

\* mutant: the evaluation does not count the attempt (no mastery.attempts += 1)
evaluated_uncounted(old, quality) ==
    LET attempted == [old EXCEPT !.confidence = quality]
    IN  IF passed(quality)
        THEN [attempted EXCEPT !.mastered = TRUE, !.mastered_at = "now"]
        ELSE attempted

\* mutant: the record saved is built from the defaults, not from the stored one
\* (mastery = MasteryState(...); mastery.attempts += 1; ...)
evaluated_from_defaults(old, quality) ==
    LET attempted == [MasteryState(old.user_id, old.goal_id, old.concept)
                         EXCEPT !.attempts = @ + 1, !.confidence = quality]
    IN  IF passed(quality)
        THEN [attempted EXCEPT !.mastered = TRUE, !.mastered_at = "now"]
        ELSE attempted

\* mutant: mastered follows the latest evaluation (mastery.mastered = passed)
evaluated_resets(old, quality) ==
    [old EXCEPT !.attempts = @ + 1, !.confidence = quality,
                !.mastered = passed(quality),
                !.mastered_at = IF passed(quality) THEN "now" ELSE None]

\* mutant: confidence accumulates the scores (mastery.confidence += quality)
evaluated_accumulates(old, quality) ==
    LET attempted == [old EXCEPT !.attempts = @ + 1, !.confidence = @ + quality]
    IN  IF passed(quality)
        THEN [attempted EXCEPT !.mastered = TRUE, !.mastered_at = "now"]
        ELSE attempted

\* the record interact saves: attempts += 1, confidence = reasoning_quality, and
\* mastered, mastered_at set when the evaluation passed
evaluated(old, quality) ==
    LET attempted == [old EXCEPT !.attempts = @ + 1, !.confidence = quality]
    IN  IF passed(quality)
        THEN [attempted EXCEPT !.mastered = TRUE, !.mastered_at = "now"]
        ELSE attempted

\* mutant: the interaction is recorded before the completed check
interact_records_before_checks(session_id, quality) ==
    IF session_id \notin DOMAIN sessions
    THEN /\ last' = Rejected("interact", 404)
         /\ UNCHANGED <<goals, graphs, sessions, mastery>>
    ELSE
        LET session == sessions[session_id]
            graph == graphs[session.graph_id]
            current_concept == session.current_concept
            key == <<session.user_id, session.goal_id>>
            interaction == [ concept |-> current_concept,
                             correct |-> passed(quality) ]
            sess1 == [sessions EXCEPT ![session_id].interactions =
                                          Append(@, interaction)]
        IN  IF session.completed
            THEN /\ sessions' = sess1
                 /\ last' = Rejected("interact", 400)
                 /\ UNCHANGED <<goals, graphs, mastery>>
            ELSE IF current_concept \notin NodeNames(graph)
            THEN /\ last' = Rejected("interact", 500)
                 /\ UNCHANGED <<goals, graphs, sessions, mastery>>
            ELSE IF ~has_mastery_state(mastery, key[1], key[2], current_concept)
            THEN /\ sessions' = sess1
                 /\ last' = Rejected("interact", 500)
                 /\ UNCHANGED <<goals, graphs, mastery>>
            ELSE
                LET old == get_mastery_state(mastery, key[1], key[2], current_concept)
                    m == evaluated(old, quality)
                IN  /\ IF passed(quality)
                       THEN \E saved \in {save_mastery_state(mastery, m)} :
                                _progress_to_next_concept(sess1, saved, session_id)
                       ELSE /\ mastery' = save_mastery_state(mastery, m)
                            /\ sessions' = sess1
                            /\ last' = Response("interact", 200, session_id,
                                                current_concept, FALSE, FALSE, Percent(0),
                                                NoResult)
                    /\ UNCHANGED <<goals, graphs>>

\* POST /session/interact; quality is the evaluator's reasoning_quality for the response
interact(session_id, quality) ==
    IF session_id \notin DOMAIN sessions
    THEN /\ last' = Rejected("interact", 404)
         /\ UNCHANGED <<goals, graphs, sessions, mastery>>
    ELSE IF sessions[session_id].completed
    THEN /\ last' = Rejected("interact", 400)
         /\ UNCHANGED <<goals, graphs, sessions, mastery>>
    ELSE
        LET session == sessions[session_id]
            graph == graphs[session.graph_id]
            current_concept == session.current_concept
            key == <<session.user_id, session.goal_id>>
        IN  IF current_concept \notin NodeNames(graph)
            THEN \* graph.nodes[current_concept] raises KeyError
                 /\ last' = Rejected("interact", 500)
                 /\ UNCHANGED <<goals, graphs, sessions, mastery>>
            ELSE
            LET interaction == [ concept |-> current_concept,
                                 correct |-> passed(quality) ]
                sess1 == [sessions EXCEPT ![session_id].interactions =
                                              Append(@, interaction)]
            IN  IF ~has_mastery_state(mastery, key[1], key[2], current_concept)
                THEN \* mastery is None: mastery.attempts raises AttributeError
                     /\ sessions' = sess1
                     /\ last' = Rejected("interact", 500)
                     /\ UNCHANGED <<goals, graphs, mastery>>
                ELSE
                LET old == get_mastery_state(mastery, key[1], key[2], current_concept)
                    m == evaluated(old, quality)
                IN  /\ IF passed(quality)
                       THEN \E saved \in {save_mastery_state(mastery, m)} :
                                _progress_to_next_concept(sess1, saved, session_id)
                       ELSE /\ mastery' = save_mastery_state(mastery, m)
                            /\ sessions' = sess1
                            /\ last' = Response("interact", 200, session_id,
                                                current_concept, FALSE, FALSE, Percent(0),
                                                NoResult)
                    /\ UNCHANGED <<goals, graphs>>

\* GET /session/state
get_session_state(session_id) ==
    /\ IF session_id \notin DOMAIN sessions
       THEN last' = Rejected("get_session_state", 404)
       ELSE LET session == sessions[session_id]
                graph == graphs[session.graph_id]
                result == process(graph, get_mastery_states(mastery, session.user_id,
                                                            session.goal_id))
            IN  IF session.current_concept \notin NodeNames(graph)
                THEN last' = Rejected("get_session_state", 500)
                ELSE last' = Response("get_session_state", 200, session_id,
                                      session.current_concept, FALSE, FALSE,
                                      result.progress_percentage, NoResult)
    /\ UNCHANGED <<goals, graphs, sessions, mastery>>

(***************************************************************************)
(* routers/progress.py                                                     *)
(***************************************************************************)
\* mutant: the engine reorders the list of mastery states it was given
get_progress_reorders_states(user_id, goal_id) ==
    IF goal_id \notin DOMAIN goals
    THEN /\ last' = Rejected("get_progress", 404)
         /\ UNCHANGED <<goals, graphs, sessions, mastery>>
    ELSE LET graph == graphs[goals[goal_id].graph_id]
             states == get_mastery_states(mastery, user_id, goal_id)
             result == process(graph, states)
         IN  /\ last' = Response("get_progress", 200, 0, result.next_concept, FALSE,
                                 FALSE, result.progress_percentage, result)
             /\ mastery' = [mastery EXCEPT ![<<user_id, goal_id>>] =
                                [i \in DOMAIN states |-> states[Len(states) + 1 - i]]]
             /\ UNCHANGED <<goals, graphs, sessions>>

\* GET /progress: the response carries the engine's whole result
get_progress(user_id, goal_id) ==
    /\ IF goal_id \notin DOMAIN goals
       THEN last' = Rejected("get_progress", 404)
       ELSE LET graph == graphs[goals[goal_id].graph_id]
                result == process(graph, get_mastery_states(mastery, user_id, goal_id))
            IN  last' = Response("get_progress", 200, 0, result.next_concept, FALSE,
                                 FALSE, result.progress_percentage, result)
    /\ UNCHANGED <<goals, graphs, sessions, mastery>>

(***************************************************************************)
(* The request handlers as a state machine                                 *)
(***************************************************************************)
EmptyDict == [k \in {} |-> None]

Init ==
    /\ goals = EmptyDict
    /\ graphs = EmptyDict
    /\ sessions = <<>>
    /\ mastery = [k \in Users \X GoalIds |-> <<>>]
    /\ last = Response("init_db", 200, 0, None, FALSE, FALSE, Percent(0),
                    NoResult)
    /\ requests = <<>>

\* the requests below are handled without suspension
CreateGoal ==
    /\ \E u \in Users, graph \in GoalGraphs : create_goal(u, graph)
    /\ UNCHANGED requests
StartSession ==
    /\ \E u \in Users, g \in GoalIds : start_session(u, g)
    /\ UNCHANGED requests
Interact ==
    /\ \E sid \in SessionIds, q \in QualityScores :
          /\ TotalInteractions < MaxInteractions
          /\ interact(sid, q)
    /\ UNCHANGED requests
GetSessionState ==
    /\ \E sid \in SessionIds : get_session_state(sid)
    /\ UNCHANGED requests
GetProgress ==
    /\ \E u \in Users, g \in GoalIds : get_progress(u, g)
    /\ UNCHANGED requests

Next ==
    \/ CreateGoal
    \/ StartSession
    \/ Interact

Spec == Init /\ [][Next]_vars

(***************************************************************************)
(* The handlers together with the read-only queries, on two of the graphs  *)
(***************************************************************************)
QueryGraphs ==
    { <<ConceptNode("A", <<>>, 25), ConceptNode("B", <<>>, 20),
        ConceptNode("C", <<"A">>, 20)>>,
      <<ConceptNode("A", <<>>, 20), ConceptNode("B", <<"C">>, 20)>> }

CreateGoalQueries ==
    /\ \E u \in Users, graph \in QueryGraphs : create_goal(u, graph)
    /\ UNCHANGED requests

NextQueries ==
    \/ CreateGoalQueries
    \/ StartSession
    \/ Interact
    \/ GetSessionState
    \/ GetProgress

SpecQueries == Init /\ [][NextQueries]_vars

(***************************************************************************)
(* A learner who keeps answering: failed evaluations are bounded by        *)
(* MaxInteractions, and an evaluation of the current concept of every      *)
(* session that is not completed eventually passes                         *)
(***************************************************************************)
PassingScores == {q \in QualityScores : passed(q)}

InteractLive ==
    /\ \E sid \in SessionIds, q \in QualityScores :
          /\ passed(q) \/ TotalInteractions < MaxInteractions
          /\ interact(sid, q)
    /\ UNCHANGED requests

\* a passing evaluation in a session that is not completed
PassCurrent(sid) ==
    /\ sid \in DOMAIN sessions
    /\ ~sessions[sid].completed
    /\ \E q \in PassingScores : interact(sid, q)
    /\ UNCHANGED requests

NextLive ==
    \/ CreateGoal
    \/ StartSession
    \/ InteractLive

SpecLive ==
    /\ Init
    /\ [][NextLive]_vars
    /\ \A sid \in SessionIds : WF_vars(PassCurrent(sid))

(***************************************************************************)
(* The handlers with a finer range of evaluation scores: two below the     *)
(* pass threshold, the threshold itself and one above it                   *)
(***************************************************************************)
EvalScores == {30, 50, 70, 90}

InteractScores ==
    /\ \E sid \in SessionIds, q \in EvalScores :
          /\ TotalInteractions < MaxInteractions
          /\ interact(sid, q)
    /\ UNCHANGED requests

NextScores ==
    \/ CreateGoalQueries
    \/ StartSession
    \/ InteractScores

SpecScores == Init /\ [][NextScores]_vars

(***************************************************************************)
(* The engine as a pure function: GET /progress on every graph of          *)
(* EngineGraphs and every mastery list of EngineMasteryStates              *)
(***************************************************************************)
\* a learner's record for a concept: absent, created and not yet attempted,
\* attempted once and failed, or mastered
RecordKinds == {"none", "fresh", "tried", "mastered"}

RecordOfKind(concept, kind) ==
    LET m == MasteryState("demo_user", 1, concept)
    IN  CASE kind = "fresh"    -> m
          [] kind = "tried"    -> [m EXCEPT !.attempts = 1, !.confidence = 50]
          [] kind = "mastered" -> [m EXCEPT !.attempts = 1, !.confidence = 70,
                                            !.mastered = TRUE, !.mastered_at = "now"]

\* the records of the concepts whose kind is not "none", in node order
RECURSIVE StatesOfKinds(_, _, _)
StatesOfKinds(graph, kinds, i) ==
    IF i > Len(graph) THEN <<>>
    ELSE (IF kinds[i] = "none" THEN <<>>
          ELSE <<RecordOfKind(graph[i].concept, kinds[i])>>)
         \o StatesOfKinds(graph, kinds, i + 1)

\* mastery lists over the graph's own concepts, one record per concept at most
EngineMasteryStates(graph) ==
    {StatesOfKinds(graph, kinds, 1) : kinds \in [DOMAIN graph -> RecordKinds]}

InitEngine ==
    /\ goals = (1 :> [id |-> 1, user_id |-> "demo_user", graph_id |-> 1])
    /\ \E graph \in EngineGraphs :
          /\ graphs = (1 :> graph)
          /\ \E states \in EngineMasteryStates(graph) :
                mastery = [k \in Users \X GoalIds |->
                              IF k = <<"demo_user", 1>> THEN states ELSE <<>>]
    /\ sessions = <<>>
    /\ requests = <<>>
    /\ last = Response("init_db", 200, 0, None, FALSE, FALSE, Percent(0),
                    NoResult)

EngineProgress == get_progress("demo_user", 1) /\ UNCHANGED requests

NextEngine == EngineProgress

SpecEngine == InitEngine /\ [][NextEngine]_vars

(***************************************************************************)
(* validate_prerequisite_completion called on every graph of EngineGraphs, *)
(* every concept name and every mastered set of names                      *)
(***************************************************************************)
InitValidate ==
    /\ goals = (1 :> [id |-> 1, user_id |-> "demo_user", graph_id |-> 1])
    /\ \E graph \in EngineGraphs : graphs = (1 :> graph)
    /\ sessions = <<>>
    /\ requests = <<>>
    /\ mastery = [k \in Users \X GoalIds |-> <<>>]
    /\ last = Response("init_db", 200, 0, None, FALSE, FALSE, Percent(0),
                       NoResult)

\* the call and its return value, kept with its arguments in the response
Validate ==
    \E concept \in Names, mastered \in SUBSET Names :
        \E out \in {validate_prerequisite_completion(graphs[1], concept, mastered)} :
            /\ last' = Response("validate_prerequisite_completion", 200, 0, concept,
                                FALSE, FALSE, Percent(0),
                                [ mastered |-> mastered, is_valid |-> out[1],
                                  missing |-> out[2] ])
            /\ UNCHANGED <<goals, graphs, sessions, mastery, requests>>

NextValidate == Validate

SpecValidate == InitValidate /\ [][NextValidate]_vars

(***************************************************************************)
(* Interleaved interact requests.  interact is a coroutine: the event loop  *)
(* may run other requests at its awaits.  A request in flight is a record   *)
(* of requests holding the handler's local variables:                       *)
(*   session_id, current_concept, interaction (the index of its            *)
(*   InteractionEvent in session.interactions), quality (the evaluator's    *)
(*   reasoning_quality for its response), mastered_concepts (the set        *)
(*   engine.process built), and pc, the await it is suspended at:           *)
(*   "evaluator" (await evaluator.process), "engine" (await                 *)
(*   _progress_to_next_concept / await engine.process) or "select" (the     *)
(*   awaits of engine.process after mastered_concepts was built).           *)
(* An InteractionEvent's correct is None until the evaluation returns; the  *)
(* list holds FALSE for it meanwhile.                                      *)
(***************************************************************************)
MaxInflight == 2

RemoveAt(seq, i) == SubSeq(seq, 1, i - 1) \o SubSeq(seq, i + 1, Len(seq))

\* interact up to await evaluator.process(...)
interact_begin(session_id, quality) ==
    IF session_id \notin DOMAIN sessions
    THEN /\ last' = Rejected("interact", 404)
         /\ UNCHANGED <<goals, graphs, sessions, mastery, requests>>
    ELSE IF sessions[session_id].completed
    THEN /\ last' = Rejected("interact", 400)
         /\ UNCHANGED <<goals, graphs, sessions, mastery, requests>>
    ELSE
        LET session == sessions[session_id]
            graph == graphs[session.graph_id]
            current_concept == session.current_concept
        IN  IF current_concept \notin NodeNames(graph)
            THEN \* graph.nodes[current_concept] raises KeyError
                 /\ last' = Rejected("interact", 500)
                 /\ UNCHANGED <<goals, graphs, sessions, mastery, requests>>
            ELSE /\ sessions' = [sessions EXCEPT ![session_id].interactions =
                                    Append(@, [ concept |-> current_concept,
                                                correct |-> FALSE ])]
                 /\ requests' = Append(requests,
                        [ session_id |-> session_id,
                          current_concept |-> current_concept,
                          interaction |-> Len(session.interactions) + 1,
                          quality |-> quality,
                          mastered_concepts |-> {},
                          pc |-> "evaluator" ])
                 /\ UNCHANGED <<goals, graphs, mastery, last>>

\* interact from the return of the evaluator to await _progress_to_next_concept
\* (passed) or to the response (failed: the adaptation and orchestrator agents
\* read and write nothing of the store)
interact_evaluate(i) ==
    \E request \in {requests[i]} :
    \E session \in {sessions[request.session_id]} :
    \E sess1 \in {[sessions EXCEPT ![request.session_id].interactions[request.interaction]
                                       .correct = passed(request.quality)]} :
        /\ request.pc = "evaluator"
        /\ IF ~has_mastery_state(mastery, session.user_id, session.goal_id,
                                 request.current_concept)
           THEN \* mastery is None: mastery.attempts raises AttributeError
                /\ sessions' = sess1
                /\ requests' = RemoveAt(requests, i)
                /\ last' = Rejected("interact", 500)
                /\ UNCHANGED mastery
           ELSE
           LET old == get_mastery_state(mastery, session.user_id, session.goal_id,
                                        request.current_concept)
               m == evaluated(old, request.quality)
           IN  /\ mastery' = save_mastery_state(mastery, m)
               /\ sessions' = sess1
               /\ IF passed(request.quality)
                  THEN /\ requests' = [requests EXCEPT ![i].pc = "engine"]
                       /\ UNCHANGED last
                  ELSE /\ requests' = RemoveAt(requests, i)
                       /\ last' = Response("interact", 200, request.session_id,
                                           request.current_concept, FALSE, FALSE,
                                           Percent(0), NoResult)
        /\ UNCHANGED <<goals, graphs>>

\* _progress_to_next_concept up to the first await of engine.process:
\* mastered_concepts = {m.concept for m in mastery_states if m.mastered}
interact_engine(i) ==
    \E request \in {requests[i]} :
    \E session \in {sessions[request.session_id]} :
        /\ request.pc = "engine"
        /\ requests' = [requests EXCEPT
               ![i].mastered_concepts =
                   mastered_concepts(get_mastery_states(mastery, session.user_id,
                                                        session.goal_id)),
               ![i].pc = "select"]
        /\ UNCHANGED <<goals, graphs, sessions, mastery, last>>

\* the rest of engine.process, on the mastered_concepts it built and the list
\* mastery_states (an alias of the store's list), and the rest of
\* _progress_to_next_concept
interact_progress(i) ==
    \E request \in {requests[i]} :
    \E session \in {sessions[request.session_id]} :
    LET graph == graphs[session.graph_id]
        mastery_states == get_mastery_states(mastery, session.user_id, session.goal_id)
        available == _get_available_concepts(graph, request.mastered_concepts)
        sid == request.session_id
    IN  \E next_concept \in {_select_next_concept(graph, available, mastery_states)} :
        /\ request.pc = "select"
        /\ requests' = RemoveAt(requests, i)
        /\ IF next_concept = None
           THEN /\ sessions' = [sessions EXCEPT ![sid].completed = TRUE]
                /\ UNCHANGED mastery
                /\ last' = Response("interact", 200, sid, None, TRUE, TRUE,
                                    Percent(100), NoResult)
           ELSE /\ sessions' = [sessions EXCEPT ![sid].current_concept = next_concept]
                /\ mastery' = get_or_create_mastery(mastery, session.user_id,
                                                    session.goal_id, next_concept)
                /\ last' = Response("interact", 200, sid, next_concept, FALSE, TRUE,
                                    progress_percentage(graph, request.mastered_concepts),
                                    NoResult)
        /\ UNCHANGED <<goals, graphs>>

InteractBegin ==
    \E sid \in SessionIds, q \in QualityScores :
        /\ TotalInteractions < MaxInteractions
        /\ Len(requests) < MaxInflight
        /\ interact_begin(sid, q)
InteractEvaluate == \E i \in DOMAIN requests : interact_evaluate(i)
InteractEngine == \E i \in DOMAIN requests : interact_engine(i)
InteractProgress == \E i \in DOMAIN requests : interact_progress(i)

NextConcurrent ==
    \/ CreateGoalQueries
    \/ StartSession
    \/ InteractBegin
    \/ InteractEvaluate
    \/ InteractEngine
    \/ InteractProgress

SpecConcurrent == Init /\ [][NextConcurrent]_vars

(***************************************************************************)
(* Claims about the engine (under SpecEngine), read off the response of    *)
(* GET /progress for the graph and the mastery list of the initial state   *)
(***************************************************************************)
\* the engine has run on EngineGraph and EngineStates and last holds its result
EngineRan == last.op = "get_progress" /\ last.status = 200
EngineGraph == graphs[1]
EngineStates == mastery[<<"demo_user", 1>>]
\* M: the concepts whose record says mastered
EngineMastered ==
    {c \in Names : \E i \in DOMAIN EngineStates :
        EngineStates[i].concept = c /\ EngineStates[i].mastered}
Available == SeqToSet(last.result.available_concepts)
BlockedKeys == DOMAIN last.result.blocked_concepts
NextConcept == last.result.next_concept

\* the prerequisites a concept of the graph declares, as a set
PrereqsOf(graph, c) == SeqToSet(NodeAt(graph, c).prerequisites)

\* the score of section 4.1: difficulty * 100 + attempts * 10 - dependents * 5
SpecScore(c) ==
    LET recs == {i \in DOMAIN EngineStates : EngineStates[i].concept = c}
        attempts == IF recs = {} THEN 0
                    ELSE EngineStates[CHOOSE i \in recs : TRUE].attempts
        dependents == {d \in NodeNames(EngineGraph) : c \in PrereqsOf(EngineGraph, d)}
    IN  NodeAt(EngineGraph, c).difficulty_score + attempts * 10
            - Cardinality(dependents) * 5

\* the place of a concept in the graph's insertion order
NodeIndex(c) == CHOOSE i \in DOMAIN EngineGraph : EngineGraph[i].concept = c

C4_AvailableExact ==
    EngineRan =>
        /\ Available =
              {c \in NodeNames(EngineGraph) :
                  /\ c \notin EngineMastered
                  /\ PrereqsOf(EngineGraph, c) \subseteq EngineMastered}
        /\ \A c \in NodeNames(EngineGraph) :
              (PrereqsOf(EngineGraph, c) = {} /\ c \notin EngineMastered)
                  => c \in Available

\* C4 witness: a concept available through mastered prerequisites, another
\* unavailable because one of its two prerequisites is unmastered
C4_Witness ==
    /\ EngineRan
    /\ \E c \in Available : PrereqsOf(EngineGraph, c) # {}
    /\ \E c \in NodeNames(EngineGraph) \ (Available \cup EngineMastered) :
          PrereqsOf(EngineGraph, c) \cap EngineMastered # {}

\* C5: next_concept is None exactly when no concept is available, and is an
\* available concept otherwise
C5_NextIsAvailable ==
    EngineRan =>
        /\ (NextConcept = None) <=> (Available = {})
        /\ NextConcept # None => NextConcept \in Available

\* C5 witness: a concept is selected while other concepts are unmastered and
\* not available
C5_Witness ==
    /\ EngineRan
    /\ NextConcept \in Available
    /\ BlockedKeys # {}

\* C6: the selected concept has the least score among the available concepts
C6_MinimalScore ==
    (EngineRan /\ Available # {}) =>
        /\ NextConcept \in Available
        /\ \A c \in Available : SpecScore(NextConcept) <= SpecScore(c)

\* C6 witness (scenario 4): B follows A in the graph, both have the same
\* difficulty and no attempts, B has a dependent, and B is selected
C6_Witness ==
    /\ EngineRan
    /\ {"A", "B"} \subseteq Available
    /\ NextConcept = "B"
    /\ NodeAt(EngineGraph, "A").difficulty_score
          = NodeAt(EngineGraph, "B").difficulty_score
    /\ SpecScore("B") < SpecScore("A")

\* C7: among the available concepts of least score the selected one comes
\* first in the graph's insertion order
C7_TieInsertionOrder ==
    (EngineRan /\ Available # {}) =>
        /\ NextConcept \in Available
        /\ \A c \in Available :
              \/ SpecScore(NextConcept) < SpecScore(c)
              \/ /\ SpecScore(NextConcept) = SpecScore(c)
                 /\ NodeIndex(NextConcept) <= NodeIndex(c)

\* C7 witness: two available concepts of different difficulty tie for the
\* least score
C7_Witness ==
    /\ EngineRan
    /\ NextConcept \in Available
    /\ \E c \in Available :
          /\ c # NextConcept
          /\ SpecScore(c) = SpecScore(NextConcept)
          /\ NodeAt(EngineGraph, c).difficulty_score
                # NodeAt(EngineGraph, NextConcept).difficulty_score

\* C13: for mastered sets M, a subset of M2, every concept available under M
\* that is not in M2 is available under M2; M2 ranges over all sets of names
\* and, through the response, is the mastered set of the mastery list
C13_AvailabilityMonotone ==
    EngineRan =>
        /\ \A M \in SUBSET EngineMastered :
              SeqToSet(_get_available_concepts(EngineGraph, M)) \ EngineMastered
                  \subseteq Available
        /\ \A M2 \in SUBSET Names : \A M \in SUBSET M2 :
              SeqToSet(_get_available_concepts(EngineGraph, M)) \ M2
                  \subseteq SeqToSet(_get_available_concepts(EngineGraph, M2))

\* C13 witness: with one concept mastered, a concept that was available with
\* nothing mastered is still available and another one has become available
C13_Witness ==
    /\ EngineRan
    /\ Cardinality(EngineMastered) = 1
    /\ \E c \in Available : c \notin SeqToSet(_get_available_concepts(EngineGraph, {}))
    /\ \E c \in Available : c \in SeqToSet(_get_available_concepts(EngineGraph, {}))

\* C14: progress_percentage is (mastered concepts / graph nodes) * 100: 0 when
\* nothing is mastered, 100 when every concept is; for a graph without nodes it
\* is 0 and next_concept is None
C14_ProgressPercentage ==
    EngineRan =>
        LET p == last.result.progress_percentage
            n == Len(EngineGraph)
            k == Cardinality(EngineMastered)
        IN  /\ p[2] > 0
            /\ last.progress_percentage = p
            /\ n > 0 => p[1] * n = k * 100 * p[2]
            /\ (n > 0 /\ k = 0) => p = <<0, 1>>
            /\ (n > 0 /\ k = n) => p = <<100, 1>>
            /\ n = 0 => (p = <<0, 1>> /\ NextConcept = None)

\* C14 witness: one of three concepts is mastered and the progress is 100/3
C14_Witness ==
    /\ EngineRan
    /\ Len(EngineGraph) = 3
    /\ Cardinality(EngineMastered) = 1
    /\ last.result.progress_percentage = <<100, 3>>

\* the elements of the list prereqs that are not in M, in the order of the list
RECURSIVE MissingIn(_, _)
MissingIn(prereqs, M) ==
    IF prereqs = <<>> THEN <<>>
    ELSE (IF Head(prereqs) \in M THEN <<>> ELSE <<Head(prereqs)>>)
            \o MissingIn(Tail(prereqs), M)

\* C15: the keys of blocked_concepts are the unmastered concepts with a
\* prerequisite outside the mastered set; each is mapped to its prerequisites
\* outside the mastered set in declared order, a list that is not empty; no
\* available or mastered concept is a key
C15_BlockedExplained ==
    EngineRan =>
        LET blocked == last.result.blocked_concepts
        IN  /\ DOMAIN blocked =
                  {c \in NodeNames(EngineGraph) :
                      /\ c \notin EngineMastered
                      /\ ~(PrereqsOf(EngineGraph, c) \subseteq EngineMastered)}
            /\ \A c \in DOMAIN blocked :
                  /\ blocked[c] = MissingIn(NodeAt(EngineGraph, c).prerequisites,
                                            EngineMastered)
                  /\ blocked[c] # <<>>
            /\ DOMAIN blocked \cap (Available \cup EngineMastered) = {}

\* C15 witness: a blocked concept declares two prerequisites, the first is
\* mastered and the list holds the second only
C15_Witness ==
    /\ EngineRan
    /\ \E c \in BlockedKeys :
          /\ Len(NodeAt(EngineGraph, c).prerequisites) = 2
          /\ NodeAt(EngineGraph, c).prerequisites[1] \in EngineMastered
          /\ last.result.blocked_concepts[c]
                = <<NodeAt(EngineGraph, c).prerequisites[2]>>

\* C16 (under SpecValidate): validate_prerequisite_completion returns
\* (false, []) for a concept that is not in the graph, and otherwise
\* (missing is empty, missing), missing being the concept's prerequisites that
\* are not in mastered, in declared order
C16_ValidatePrerequisites ==
    last.op = "validate_prerequisite_completion" =>
        LET graph == graphs[1]
            r == last.result
        IN  /\ last.status = 200
            /\ IF last.concept \notin NodeNames(graph)
               THEN r.is_valid = FALSE /\ r.missing = <<>>
               ELSE /\ r.missing = MissingIn(NodeAt(graph, last.concept).prerequisites,
                                             r.mastered)
                    /\ r.is_valid <=> (r.missing = <<>>)

\* C16 witness: the call was made for a concept that is not in the graph, with
\* a mastered set that is not empty
C16_Witness ==
    /\ last.op = "validate_prerequisite_completion"
    /\ last.concept \notin NodeNames(graphs[1])
    /\ graphs[1] # <<>>
    /\ last.result.mastered # {}
    /\ last.result.is_valid = FALSE /\ last.result.missing = <<>>

IsMastered(u, g, c) ==
    \E i \in DOMAIN mastery[<<u, g>>] :
        mastery[<<u, g>>][i].concept = c /\ mastery[<<u, g>>][i].mastered

MasteredSet(u, g) == {c \in Names : IsMastered(u, g, c)}

GraphOfGoal(g) == graphs[goals[g].graph_id]

\* the last request created a session (start_session) or advanced one (a passed
\* interact that did not complete the session)
SessionCreated ==
    last.op = "start_session" /\ last.status = 200 /\ ~last.completed
SessionAdvanced ==
    last.op = "interact" /\ last.status = 200 /\ last.passed /\ ~last.completed

\* C1: right after start_session creates a session or interact advances one,
\* the session's current concept is a concept of the graph that the learner
\* has not mastered and whose prerequisites the learner has all mastered
C1_CurrentIsAvailable ==
    (SessionCreated \/ SessionAdvanced) =>
        LET s == sessions[last.session_id]
            c == s.current_concept
        IN  /\ c = last.concept
            /\ c \in NodeNames(graphs[s.graph_id])
            /\ ~IsMastered(s.user_id, s.goal_id, c)
            /\ PrereqsOf(graphs[s.graph_id], c) \subseteq MasteredSet(s.user_id, s.goal_id)

\* C1 witness: interact advanced a session to a concept that has prerequisites
C1_Witness ==
    /\ SessionAdvanced
    /\ LET s == sessions[last.session_id]
       IN  PrereqsOf(graphs[s.graph_id], s.current_concept) # {}

\* the missing prerequisites blocked_concepts reports to learner u for goal g
MissingPrereqs(u, g) ==
    IF g \in DOMAIN goals
    THEN LET blocked == _get_blocked_concepts(GraphOfGoal(g), MasteredSet(u, g))
         IN  UNION {SeqToSet(blocked[d]) : d \in DOMAIN blocked}
    ELSE {}

\* C2: a mastered record stays mastered in the next state, and its concept is
\* in no list of missing prerequisites there
C2_MasteredNeverReverts ==
    [][\A u \in Users, g \in GoalIds, c \in Names :
          IsMastered(u, g, c) =>
              /\ IsMastered(u, g, c)'
              /\ c \notin MissingPrereqs(u, g)']_vars

\* C2 witness: a mastered record whose latest evaluation, in another session
\* still on that concept, failed
C2_Witness ==
    \E u \in Users, g \in GoalIds :
        \E i \in DOMAIN mastery[<<u, g>>] :
            /\ mastery[<<u, g>>][i].mastered
            /\ ~passed(mastery[<<u, g>>][i].confidence)

\* the mastery list in which exactly the concepts of M are mastered
MasteredOnly(graph, M) ==
    StatesOfKinds(graph,
        [i \in DOMAIN graph |-> IF graph[i].concept \in M THEN "mastered" ELSE "none"],
        1)

\* C8: for an acyclic graph without dangling prerequisites, next_concept is
\* None exactly for the mastered set of all concepts; a completed session has
\* all concepts mastered, and start_session reports completion only then
C8_NoneIffAllMastered ==
    /\ [](\A g \in DOMAIN goals :
            WellFormed(GraphOfGoal(g)) =>
                /\ \A M \in SUBSET NodeNames(GraphOfGoal(g)) :
                      (process(GraphOfGoal(g), MasteredOnly(GraphOfGoal(g), M)).next_concept
                          = None) <=> (M = NodeNames(GraphOfGoal(g)))
                /\ \A u \in Users :
                      (process(GraphOfGoal(g), mastery[<<u, g>>]).next_concept = None)
                          <=> (MasteredSet(u, g) = NodeNames(GraphOfGoal(g)))
                /\ \A sid \in DOMAIN sessions :
                      (sessions[sid].goal_id = g /\ sessions[sid].completed)
                          => MasteredSet(sessions[sid].user_id, g)
                                = NodeNames(GraphOfGoal(g)))
    /\ [][\A u \in Users, g \in DOMAIN goals :
            (start_session(u, g) /\ last'.completed /\ WellFormed(GraphOfGoal(g)))
                => MasteredSet(u, g) = NodeNames(GraphOfGoal(g))]_vars

\* C8 witness: the three concepts of a graph were mastered, the session was
\* completed and a later start_session reported the goal complete
C8_Witness ==
    /\ last.op = "start_session" /\ last.status = 200 /\ last.completed
    /\ \E sid \in DOMAIN sessions :
          /\ sessions[sid].completed
          /\ Len(graphs[sessions[sid].graph_id]) = 3
          /\ WellFormed(graphs[sessions[sid].graph_id])

\* C17: a start_session for which the engine's next_concept is None reports
\* completion without a session id and leaves the stored sessions and the
\* mastery store as they were
C17_CompletedStartCreatesNothing ==
    [][\A u \in Users, g \in DOMAIN goals :
          (/\ process(GraphOfGoal(g), get_mastery_states(mastery, u, g)).next_concept
                  = None
           /\ start_session(u, g)) =>
              /\ last'.op = "start_session" /\ last'.completed
              /\ last'.session_id = 0 /\ last'.concept = None
              /\ sessions' = sessions
              /\ mastery' = mastery]_vars

\* C17 witness: start_session reported completion on a graph whose remaining
\* concept waits for a prerequisite that is not in the graph; the only stored
\* session is the completed one
C17_Witness ==
    /\ last.op = "start_session" /\ last.status = 200 /\ last.completed
    /\ last.session_id = 0
    /\ Len(sessions) = 1
    /\ sessions[1].completed
    /\ ~NoDangling(graphs[sessions[1].graph_id])

\* C18: the mastery store holds at most one record for each user, goal and
\* concept
C18_OneRecordPerKey ==
    \A u \in Users, g \in GoalIds :
        \A i, j \in DOMAIN mastery[<<u, g>>] :
            mastery[<<u, g>>][i].concept = mastery[<<u, g>>][j].concept => i = j

\* C18 witness: a record that existed was saved again after another record was
\* created, so it is the last of two records and carries two attempts
C18_Witness ==
    \E u \in Users, g \in GoalIds :
        /\ Len(mastery[<<u, g>>]) = 2
        /\ mastery[<<u, g>>][1].attempts = 0
        /\ mastery[<<u, g>>][2].attempts = 2

\* the concepts of the graph that declare a prerequisite that is not in the graph
SoftLocked(graph) ==
    {d \in NodeNames(graph) : ~(PrereqsOf(graph, d) \subseteq NodeNames(graph))}

\* C20: a concept that declares a prerequisite absent from the graph is never
\* available to any learner, has no mastered record, indeed no record, and is
\* the current concept of no session
C20_DanglingSoftLocked ==
    \A g \in DOMAIN goals : \A d \in SoftLocked(GraphOfGoal(g)) :
        /\ \A u \in Users :
              /\ d \notin SeqToSet(process(GraphOfGoal(g),
                                get_mastery_states(mastery, u, g)).available_concepts)
              /\ ~IsMastered(u, g, d)
              /\ ~has_mastery_state(mastery, u, g, d)
        /\ \A sid \in DOMAIN sessions :
              sessions[sid].goal_id = g => sessions[sid].current_concept # d

\* C20 witness: the last interaction completed a session on a graph with a
\* soft-locked concept, every other concept being mastered
C20_Witness ==
    /\ last.op = "interact" /\ last.status = 200 /\ last.completed
    /\ \E sid \in DOMAIN sessions :
          /\ sessions[sid].completed
          /\ SoftLocked(graphs[sessions[sid].graph_id]) # {}
          /\ MasteredSet(sessions[sid].user_id, sessions[sid].goal_id)
                = NodeNames(graphs[sessions[sid].graph_id])
                     \ SoftLocked(graphs[sessions[sid].graph_id])

\* attempts of the record of (u, g, c), 0 when there is none
AttemptsOf(u, g, c) ==
    IF has_mastery_state(mastery, u, g, c)
    THEN get_mastery_state(mastery, u, g, c).attempts ELSE 0

\* the evaluated interactions on concept c recorded in session sid
EvaluatedIn(sid, c) ==
    Cardinality({i \in DOMAIN sessions[sid].interactions :
                    sessions[sid].interactions[i].concept = c})

\* the evaluated interactions of learner u for goal g on concept c, over all sessions
RECURSIVE EvaluatedUpTo(_, _, _, _)
EvaluatedUpTo(n, u, g, c) ==
    IF n = 0 THEN 0
    ELSE EvaluatedUpTo(n - 1, u, g, c)
            + (IF sessions[n].user_id = u /\ sessions[n].goal_id = g
               THEN EvaluatedIn(n, c) ELSE 0)

Evaluated(u, g, c) == EvaluatedUpTo(Len(sessions), u, g, c)

\* this step records an evaluated interaction of (u, g) on concept c
EvaluatedStep(u, g, c) ==
    \E sid \in DOMAIN sessions :
        /\ sessions[sid].user_id = u /\ sessions[sid].goal_id = g
        /\ sessions[sid].current_concept = c
        /\ Len(sessions'[sid].interactions) = Len(sessions[sid].interactions) + 1

\* C10: attempts never decreases; it grows by exactly 1 in a step that records
\* an evaluated interaction for its key and is unchanged by every other step,
\* so it equals the number of evaluated interactions recorded for the key
C10_AttemptsCountEvaluations ==
    /\ [](\A u \in Users, g \in GoalIds, c \in Names :
            AttemptsOf(u, g, c) = Evaluated(u, g, c))
    /\ [][\A u \in Users, g \in GoalIds, c \in Names :
            AttemptsOf(u, g, c)' =
                AttemptsOf(u, g, c) + (IF EvaluatedStep(u, g, c) THEN 1 ELSE 0)]_vars

\* C10 witness: a record with two attempts, one in each of two sessions, and a
\* query as the last request
C10_Witness ==
    /\ last.op \in {"get_progress", "get_session_state"}
    /\ \E u \in Users, g \in GoalIds, c \in Names :
          /\ AttemptsOf(u, g, c) = 2
          /\ \E s1 \in DOMAIN sessions, s2 \in DOMAIN sessions :
                s1 # s2 /\ EvaluatedIn(s1, c) = 1 /\ EvaluatedIn(s2, c) = 1

\* session sid exists and its graph is acyclic and has no dangling prerequisite
OnWellFormedGraph(sid) ==
    sid \in DOMAIN sessions /\ WellFormed(graphs[sessions[sid].graph_id])

\* session sid is completed and its learner has mastered every concept
CompletedAllMastered(sid) ==
    /\ sid \in DOMAIN sessions
    /\ sessions[sid].completed
    /\ MasteredSet(sessions[sid].user_id, sessions[sid].goal_id)
          = NodeNames(graphs[sessions[sid].graph_id])

\* this step records a passing evaluation in session sid
PassStep(sid) ==
    /\ Len(sessions'[sid].interactions) = Len(sessions[sid].interactions) + 1
    /\ sessions'[sid].interactions[Len(sessions'[sid].interactions)].correct

\* C9: on an acyclic graph without dangling prerequisites every session is
\* eventually completed with all concepts mastered; one passing evaluation
\* masters the current concept and takes the session off it
C9_EventuallyCompleted ==
    /\ \A sid \in SessionIds : OnWellFormedGraph(sid) ~> CompletedAllMastered(sid)
    /\ [][\A sid \in DOMAIN sessions, u \in Users, g \in GoalIds, c \in Names :
            (/\ OnWellFormedGraph(sid) /\ PassStep(sid)
             /\ sessions[sid].user_id = u /\ sessions[sid].goal_id = g
             /\ sessions[sid].current_concept = c) =>
                /\ IsMastered(u, g, c)'
                /\ \/ sessions'[sid].completed
                   \/ sessions'[sid].current_concept # c]_vars

\* C9 witness: a session on a graph of three concepts was completed after an
\* evaluation failed and three evaluations passed
C9_Witness ==
    \E sid \in DOMAIN sessions :
        /\ CompletedAllMastered(sid)
        /\ Len(graphs[sessions[sid].graph_id]) = 3
        /\ Cardinality({i \in DOMAIN sessions[sid].interactions :
                           sessions[sid].interactions[i].correct}) = 3
        /\ \E i \in DOMAIN sessions[sid].interactions :
              ~sessions[sid].interactions[i].correct

(***************************************************************************)
(* Claims about single interactions (under SpecScores)                     *)
(***************************************************************************)
\* confidence of the record of (u, g, c), 0 when there is none
ConfidenceOf(u, g, c) ==
    IF has_mastery_state(mastery, u, g, c)
    THEN get_mastery_state(mastery, u, g, c).confidence ELSE 0

\* mastered_at of the record of (u, g, c), None when there is none
MasteredAtOf(u, g, c) ==
    IF has_mastery_state(mastery, u, g, c)
    THEN get_mastery_state(mastery, u, g, c).mastered_at ELSE None

\* session sid is not completed, belongs to learner u and goal g and is on concept c
ActiveOn(sid, u, g, c) ==
    /\ sid \in DOMAIN sessions
    /\ ~sessions[sid].completed
    /\ sessions[sid].user_id = u /\ sessions[sid].goal_id = g
    /\ sessions[sid].current_concept = c

\* C11: an interaction whose score is below 0.7, on a current concept that is
\* not mastered, adds 1 to attempts, overwrites confidence with the score,
\* leaves mastered false, and leaves the session on the same concept, not completed
C11_FailedEvaluationStays ==
    [][\A sid \in SessionIds, q \in EvalScores, u \in Users, g \in GoalIds, c \in Names :
          (/\ ActiveOn(sid, u, g, c) /\ ~IsMastered(u, g, c)
           /\ q < 70 /\ interact(sid, q)) =>
              /\ AttemptsOf(u, g, c)' = AttemptsOf(u, g, c) + 1
              /\ ConfidenceOf(u, g, c)' = q
              /\ ~IsMastered(u, g, c)'
              /\ ActiveOn(sid, u, g, c)']_vars

\* C11 witness: a second failed evaluation with a lower score than the first
C11_Witness ==
    /\ last.op = "interact" /\ last.status = 200 /\ ~last.passed
    /\ \E u \in Users, g \in GoalIds :
          /\ ActiveOn(last.session_id, u, g, last.concept)
          /\ AttemptsOf(u, g, last.concept) = 2
          /\ ConfidenceOf(u, g, last.concept) = 30
          /\ Len(sessions[last.session_id].interactions) = 2
          /\ ~IsMastered(u, g, last.concept)

AllRecords ==
    UNION {SeqToSet(mastery[k]) : k \in DOMAIN mastery}

\* concept c is or was the current concept of a session of learner u for goal g
WasCurrent(u, g, c) ==
    \E sid \in DOMAIN sessions :
        /\ sessions[sid].user_id = u /\ sessions[sid].goal_id = g
        /\ \/ sessions[sid].current_concept = c
           \/ \E i \in DOMAIN sessions[sid].interactions :
                 sessions[sid].interactions[i].concept = c

\* C22 as stated: every stored record has attempts >= 1 or is mastered, and a
\* concept with no evaluated interaction has no record
C22_OnlyInProgressOrMastered ==
    /\ \A r \in AllRecords : r.attempts >= 1 \/ r.mastered
    /\ \A u \in Users, g \in GoalIds, c \in Names :
          Evaluated(u, g, c) = 0 => ~has_mastery_state(mastery, u, g, c)

\* C22 amended: every stored record is fresh (attempts 0, confidence 0, not
\* mastered, created when its concept became the current concept of a
\* session), in progress (attempts >= 1, not mastered) or mastered (attempts
\* >= 1, mastered_at set); a concept that never was the current concept of a
\* session of the learner for the goal has no record
C22_FreshInProgressOrMastered ==
    /\ \A r \in AllRecords :
          /\ r.attempts >= 0
          /\ r.attempts = 0 =>
                ~r.mastered /\ r.confidence = 0 /\ r.mastered_at = None
          /\ r.mastered <=> r.mastered_at # None
          /\ r.mastered => r.attempts >= 1
          /\ r.attempts = Evaluated(r.user_id, r.goal_id, r.concept)
    /\ \A u \in Users, g \in GoalIds, c \in Names :
          ~WasCurrent(u, g, c) => ~has_mastery_state(mastery, u, g, c)

\* C22 witness: a learner has a mastered record, and a fresh record for the
\* concept the session moved to, while a third concept has no record
C22_Witness ==
    \E u \in Users, g \in GoalIds, a, b, c \in Names :
        /\ IsMastered(u, g, a)
        /\ has_mastery_state(mastery, u, g, b)
        /\ get_mastery_state(mastery, u, g, b).attempts = 0
        /\ c \in NodeNames(GraphOfGoal(g))
        /\ ~has_mastery_state(mastery, u, g, c)

\* C23: whenever interact marks a session completed it reports
\* progress_percentage 100, and then the engine's progress_percentage for the
\* session's learner and goal is 100: every concept of the graph is mastered
C23_CompletedMeansAllMastered ==
    (last.op = "interact" /\ last.status = 200 /\ last.completed) =>
        \E session \in {sessions[last.session_id]} :
            /\ session.completed
            /\ last.progress_percentage = Percent(100)
            /\ process(graphs[session.graph_id],
                       get_mastery_states(mastery, session.user_id,
                                          session.goal_id)).progress_percentage
                  = Percent(100)
            /\ MasteredSet(session.user_id, session.goal_id)
                  = NodeNames(graphs[session.graph_id])

(***************************************************************************)
(* The priority order of _select_next_concept's docstring (under SpecEngine)*)
(***************************************************************************)
\* the attempts the learner's record of concept c holds, 0 without a record
EngineAttempts(c) ==
    LET recs == {i \in DOMAIN EngineStates : EngineStates[i].concept = c}
    IN  IF recs = {} THEN 0 ELSE EngineStates[CHOOSE i \in recs : TRUE].attempts

\* the number of concepts of the graph that list c as a prerequisite
EngineDependents(c) ==
    Cardinality({d \in NodeNames(EngineGraph) : c \in PrereqsOf(EngineGraph, d)})

\* concept c comes no later than concept d in the order: lowest difficulty,
\* then fewest attempts, then most dependents
PriorityNoLater(c, d) ==
    LET dc == NodeAt(EngineGraph, c).difficulty_score
        dd == NodeAt(EngineGraph, d).difficulty_score
    IN  \/ dc < dd
        \/ dc = dd /\ EngineAttempts(c) < EngineAttempts(d)
        \/ /\ dc = dd /\ EngineAttempts(c) = EngineAttempts(d)
           /\ EngineDependents(c) >= EngineDependents(d)

\* C24: the selected concept has the lowest difficulty among the available
\* concepts; among those of equal difficulty it has the fewest attempts; among
\* those still equal it is the prerequisite of the most other concepts
C24_LexicographicPriority ==
    (EngineRan /\ Available # {}) =>
        /\ NextConcept \in Available
        /\ \A c \in Available : PriorityNoLater(NextConcept, c)

\* C25: a rejected request changes nothing: interact with an unknown session
\* id is answered 404 and interact on a completed session 400, start_session
\* for an unknown goal or a goal without a stored graph 404, and each leaves
\* every session, with its interactions, and every mastery record unchanged
C25_RejectedChangesNothing ==
    [][/\ \A sid \in SessionIds, q \in QualityScores :
            (/\ sid \notin DOMAIN sessions \/ sessions[sid].completed
             /\ interact(sid, q)) =>
                /\ last'.status = IF sid \notin DOMAIN sessions THEN 404 ELSE 400
                /\ sessions' = sessions /\ mastery' = mastery
       /\ \A u \in Users, g \in GoalIds :
            (/\ g \notin DOMAIN goals \/ goals[g].graph_id \notin DOMAIN graphs
             /\ start_session(u, g)) =>
                /\ last'.status = 404
                /\ sessions' = sessions /\ mastery' = mastery]_vars

\* C25 witness: interact was rejected with 400 on a completed session that
\* holds interactions, while another session is still open
C25_Witness ==
    /\ last.op = "interact" /\ last.status = 400
    /\ \E sid, other \in DOMAIN sessions :
          /\ sessions[sid].completed
          /\ Len(sessions[sid].interactions) >= 1
          /\ ~sessions[other].completed

\* the records the store holds for (u, g, c): none or one (C18)
RecordsOf(u, g, c) ==
    {r \in SeqToSet(mastery[<<u, g>>]) : r.concept = c}

C27_MasteredClosedUnderPrerequisites ==
    \A u \in Users, g \in GoalIds :
        /\ g \notin DOMAIN goals => MasteredSet(u, g) = {}
        /\ g \in DOMAIN goals =>
              \A c \in MasteredSet(u, g) :
                  /\ c \in NodeNames(GraphOfGoal(g))
                  /\ PrereqsOf(GraphOfGoal(g), c) \subseteq MasteredSet(u, g)

\* C27 witness: two learners have sessions; one has mastered a concept that
\* lists two prerequisites, after a failed evaluation
C27_Witness ==
    /\ \E s, t \in DOMAIN sessions : sessions[s].user_id # sessions[t].user_id
    /\ \E u \in Users, g \in DOMAIN goals, c \in Names :
          /\ IsMastered(u, g, c)
          /\ Cardinality(PrereqsOf(GraphOfGoal(g), c)) = 2
          /\ \E r \in SeqToSet(mastery[<<u, g>>]) : r.attempts >= 2

\* C28: every session that is not completed has a current concept that its
\* learner has not mastered for its goal (also with several sessions of the
\* learner for the goal), so interact evaluates no mastered concept again: a
\* mastered record keeps the confidence of the evaluation that passed
C28_OpenSessionOnUnmasteredConcept ==
    /\ \A sid \in DOMAIN sessions :
          ~sessions[sid].completed =>
              ~IsMastered(sessions[sid].user_id, sessions[sid].goal_id,
                          sessions[sid].current_concept)
    /\ \A r \in AllRecords :
          r.mastered => r.confidence >= PASS_THRESHOLD

\* C29: every stored session has a current concept that is a node of its
\* graph and has a record of the session's learner and goal, and no interact
\* fails on a missing node (KeyError) or a missing record (AttributeError)
\* (under SpecConcurrent, where the requests on the sessions interleave at their awaits)
C29_CurrentConceptHasNodeAndRecord ==
    /\ \A sid \in DOMAIN sessions :
          /\ sessions[sid].graph_id \in DOMAIN graphs
          /\ sessions[sid].current_concept
                \in NodeNames(graphs[sessions[sid].graph_id])
          /\ has_mastery_state(mastery, sessions[sid].user_id,
                               sessions[sid].goal_id,
                               sessions[sid].current_concept)
    /\ last.status # 500

\* C29 witness: requests on two sessions were interleaved: both sessions hold
\* interactions, and the one that answered last has moved on to its second concept
C29_Witness ==
    /\ SessionAdvanced
    /\ Len(sessions) = 2
    /\ \A sid \in DOMAIN sessions : Len(sessions[sid].interactions) >= 1
    /\ sessions[last.session_id].current_concept
          # sessions[last.session_id].interactions[1].concept
    /\ Len(sessions[last.session_id].interactions) = 1

\* C30: every mastery record of a learner and goal names a concept of the
\* goal's graph, and the engine's progress_percentage for the learner and
\* goal lies between 0 and 100 inclusive
C30_RecordsNameNodes ==
    \A u \in Users, g \in GoalIds :
        /\ g \notin DOMAIN goals => mastery[<<u, g>>] = <<>>
        /\ g \in DOMAIN goals =>
              /\ \A r \in SeqToSet(mastery[<<u, g>>]) :
                    r.concept \in NodeNames(GraphOfGoal(g))
              /\ \E p \in {process(GraphOfGoal(g),
                                   get_mastery_states(mastery, u, g)).progress_percentage} :
                    /\ p[2] > 0
                    /\ 0 <= p[1] /\ p[1] <= 100 * p[2]

\* C30 witness: on a graph with a prerequisite that is not a node a session
\* was completed: the learner's only record is of a node and the engine's
\* progress is 50
C30_Witness ==
    \E sid \in DOMAIN sessions :
        /\ sessions[sid].completed
        /\ ~NoDangling(graphs[sessions[sid].graph_id])
        /\ process(graphs[sessions[sid].graph_id],
                   get_mastery_states(mastery, sessions[sid].user_id,
                                      sessions[sid].goal_id)).progress_percentage
              = Percent(50)

(***************************************************************************)
(* Claims about interleaved requests (under SpecConcurrent)                *)
(***************************************************************************)
\* the requests in flight whose evaluation of the record of (u, g, c) is
\* still to come
Pending(u, g, c) ==
    Cardinality({i \in DOMAIN requests :
        /\ requests[i].pc = "evaluator"
        /\ requests[i].current_concept = c
        /\ sessions[requests[i].session_id].user_id = u
        /\ sessions[requests[i].session_id].goal_id = g})

\* C21: when interact requests on the same record (u, g, c) interleave at
\* their awaits no update is lost: each evaluation adds exactly 1 to the
\* record's attempts, so that attempts is the number of interactions recorded
\* for the concept less those still awaiting their evaluation (2 higher once
\* two racing requests have finished), and a record that is mastered stays
\* mastered whatever the other request writes
C21_NoLostUpdate ==
    [][\A u \in Users, g \in GoalIds, c \in Names :
          /\ AttemptsOf(u, g, c)' + Pending(u, g, c)' = Evaluated(u, g, c)'
          /\ IsMastered(u, g, c) => IsMastered(u, g, c)'
          /\ \A i \in DOMAIN requests :
                (/\ requests[i].pc = "evaluator"
                 /\ requests[i].current_concept = c
                 /\ sessions[requests[i].session_id].user_id = u
                 /\ sessions[requests[i].session_id].goal_id = g
                 /\ interact_evaluate(i)) =>
                    /\ AttemptsOf(u, g, c)' = AttemptsOf(u, g, c) + 1
                    /\ passed(requests[i].quality) => IsMastered(u, g, c)']_vars

\* C21 witness: two requests of one session raced on the record of its
\* concept and both have finished: the one whose evaluation passed and a
\* later one whose evaluation failed; the record has 2 attempts, the
\* confidence of the failed evaluation, and is mastered
C21_Witness ==
    /\ requests = <<>>
    /\ \E sid \in DOMAIN sessions, c \in Names :
          /\ Len(sessions[sid].interactions) = 2
          /\ sessions[sid].interactions[1] = [concept |-> c, correct |-> TRUE]
          /\ sessions[sid].interactions[2] = [concept |-> c, correct |-> FALSE]
          /\ \E r \in RecordsOf(sessions[sid].user_id, sessions[sid].goal_id, c) :
                r.attempts = 2 /\ r.mastered /\ r.confidence < PASS_THRESHOLD

====
